---------------------------- MODULE Spec2Model ----------------------------
(***************************************************************************)
(* Model of backend/server.py: the schema inferencer, the statistics       *)
(* engine and the session routes that call them.                           *)
(*                                                                         *)
(* Cells are JSON values: null, strings (sequences of one-character        *)
(* strings) and integers.  A Python float is NaN, +Inf, -Inf or a finite   *)
(* value; finite values are kept as exact reduced fractions n/d, so finite *)
(* arithmetic is exact here (binary rounding is not modelled), while NaN   *)
(* and the infinities follow IEEE-754 comparison and arithmetic.           *)
(***************************************************************************)
EXTENDS Integers, Sequences, FiniteSets, TLC

VARIABLES
    db,             \* the data_sessions collection: session id -> document
    issued,         \* how many session ids uuid4 has produced
    request,        \* the call being answered
    response,       \* its answer
    values,         \* a column vector handed to a helper function
    out,            \* what the helper returned
    pyStdevRaises   \* whether statistics.stdev raises on data that is not finite

vars == <<db, issued, request, response, values, out, pyStdevRaises>>

sessionVars == <<db, issued, request, response>>
fnVars == <<values, out>>

-----------------------------------------------------------------------------
(* Cells *)

None == [t |-> "none", s |-> <<>>, n |-> 0]
StrCell(chars) == [t |-> "str", s |-> chars, n |-> 0]
IntCell(k) == [t |-> "int", s |-> <<>>, n |-> k]

EmptyStr == StrCell(<<>>)

\* the guard with its second test left out: v is not None
NotNone(v) == v # None

\* v is not None and v != ''
NonNull(v) == v # None /\ v # EmptyStr

Digits == <<"0", "1", "2", "3", "4", "5", "6", "7", "8", "9">>

DigitVal(c) == CHOOSE k \in 0..9 : Digits[k + 1] = c

IsDigit(c) == \E k \in 1..10 : Digits[k] = c

RECURSIVE NatToChars(_)
NatToChars(k) == IF k < 10 THEN <<Digits[k + 1]>>
                 ELSE NatToChars(k \div 10) \o <<Digits[(k % 10) + 1]>>

\* str(v) for the cells of the model
PyStr(v) == IF v.t = "str" THEN v.s
            ELSE IF v.t = "int"
                 THEN (IF v.n < 0 THEN <<"-">> \o NatToChars(-v.n) ELSE NatToChars(v.n))
                 ELSE <<"N", "o", "n", "e">>

-----------------------------------------------------------------------------
(* Floats *)

RECURSIVE Gcd(_, _)
Gcd(a, b) == IF b = 0 THEN a ELSE Gcd(b, a % b)

Abs(a) == IF a < 0 THEN -a ELSE a

Fin(num, den) ==
    LET g == Gcd(Abs(num), Abs(den))
        sgn == IF den < 0 THEN -1 ELSE 1
    IN  [k |-> "fin", n |-> (sgn * num) \div g, d |-> (sgn * den) \div g]

NaN == [k |-> "nan", n |-> 0, d |-> 1]
PInf == [k |-> "inf", n |-> 1, d |-> 1]
NInf == [k |-> "inf", n |-> -1, d |-> 1]

IsNaN(a) == a.k = "nan"
IsFinite(a) == a.k = "fin"

Sign(a) == IF a.n > 0 THEN 1 ELSE IF a.n < 0 THEN -1 ELSE 0

\* a < b
FLt(a, b) ==
    /\ ~IsNaN(a)
    /\ ~IsNaN(b)
    /\ IF IsFinite(a) /\ IsFinite(b) THEN a.n * b.d < b.n * a.d
       ELSE IF IsFinite(a) THEN b = PInf
       ELSE IF IsFinite(b) THEN a = NInf
       ELSE a = NInf /\ b = PInf

\* a == b
FEq(a, b) == ~IsNaN(a) /\ ~IsNaN(b) /\ a = b

\* a <= b
FLe(a, b) == FLt(a, b) \/ FEq(a, b)

FNeg(a) == IF IsNaN(a) THEN NaN
           ELSE IF IsFinite(a) THEN Fin(-a.n, a.d)
           ELSE IF a = PInf THEN NInf ELSE PInf

FAdd(a, b) ==
    IF IsNaN(a) \/ IsNaN(b) THEN NaN
    ELSE IF IsFinite(a) /\ IsFinite(b) THEN Fin(a.n * b.d + b.n * a.d, a.d * b.d)
    ELSE IF IsFinite(a) THEN b
    ELSE IF IsFinite(b) THEN a
    ELSE IF a = b THEN a ELSE NaN

FSub(a, b) == FAdd(a, FNeg(b))

FMul(a, b) ==
    IF IsNaN(a) \/ IsNaN(b) THEN NaN
    ELSE IF IsFinite(a) /\ IsFinite(b) THEN Fin(a.n * b.n, a.d * b.d)
    ELSE IF Sign(a) * Sign(b) = 0 THEN NaN
    ELSE IF Sign(a) * Sign(b) > 0 THEN PInf ELSE NInf

\* a / m for an integer m > 0
FDivInt(a, m) == IF IsFinite(a) THEN Fin(a.n, a.d * m) ELSE a

-----------------------------------------------------------------------------
(* float(v) *)

Fail == [k |-> "fail", n |-> 0, d |-> 1]

Lower(c) == CASE c = "N" -> "n" [] c = "A" -> "a" [] c = "I" -> "i"
              [] c = "F" -> "f" [] c = "T" -> "t" [] c = "Y" -> "y"
              [] OTHER -> c

RECURSIVE LStrip(_)
LStrip(s) == IF s # <<>> /\ Head(s) = " " THEN LStrip(Tail(s)) ELSE s

RECURSIVE RStrip(_)
RStrip(s) == IF s # <<>> /\ s[Len(s)] = " " THEN RStrip(SubSeq(s, 1, Len(s) - 1)) ELSE s

RECURSIVE DigitsToNat(_)
DigitsToNat(s) == IF s = <<>> THEN 0
                  ELSE 10 * DigitsToNat(SubSeq(s, 1, Len(s) - 1)) + DigitVal(s[Len(s)])

RECURSIVE Pow10(_)
Pow10(e) == IF e = 0 THEN 1 ELSE 10 * Pow10(e - 1)

\* [sign] digits [. digits], or [sign] . digits
ParseDecimal(body, sgn) ==
    LET dots == {i \in 1..Len(body) : body[i] = "."}
        rest == SelectSeq(body, LAMBDA c : c # ".")
    IN  IF Cardinality(dots) > 1 \/ rest = <<>> \/ \E i \in 1..Len(rest) : ~IsDigit(rest[i])
        THEN Fail
        ELSE LET frac == IF dots = {} THEN 0 ELSE Len(body) - (CHOOSE i \in dots : TRUE)
             IN  Fin(sgn * DigitsToNat(rest), Pow10(frac))

\* float() of a string: surrounding blanks are stripped, then an optional sign,
\* then nan, inf, infinity (any case) or a decimal number.  Strings of the
\* model hold no exponent and no underscore.
ParseFloat(chars) ==
    LET s == RStrip(LStrip(chars))
        signed == s # <<>> /\ Head(s) \in {"+", "-"}
        sgn == IF signed /\ Head(s) = "-" THEN -1 ELSE 1
        body == IF signed THEN Tail(s) ELSE s
        low == [i \in 1..Len(body) |-> Lower(body[i])]
    IN  IF low = <<"n", "a", "n">> THEN NaN
        ELSE IF low = <<"i", "n", "f">> \/ low = <<"i", "n", "f", "i", "n", "i", "t", "y">>
             THEN (IF sgn = 1 THEN PInf ELSE NInf)
             ELSE ParseDecimal(body, sgn)

\* float(v); Fail stands for ValueError / TypeError
PyFloat(v) == IF v.t = "int" THEN Fin(v.n, 1)
              ELSE IF v.t = "str" THEN ParseFloat(v.s)
              ELSE Fail

\* the try/except around float(v), after the None / '' guard
Coercible(v) == NonNull(v) /\ PyFloat(v) # Fail

-----------------------------------------------------------------------------
(* Python built-ins used by the helpers *)

Min2(a, b) == IF a < b THEN a ELSE b

\* The loops over a list are folds from the left; a fold over lo..hi is the
\* fold over the second half started from the fold over the first half.
\* Evaluated(v) is TRUE; testing it makes TLC compute v before going on, which
\* keeps the evaluation depth logarithmic in the length of the list.
Evaluated(v) == v = v

\* min(xs): the first element, replaced by each later element that is < it
RECURSIVE MinFrom(_, _, _, _)
MinFrom(xs, lo, hi, cur) ==
    IF lo > hi THEN cur
    ELSE IF lo = hi THEN (IF FLt(xs[lo], cur) THEN xs[lo] ELSE cur)
    ELSE LET mid == (lo + hi) \div 2
             left == MinFrom(xs, lo, mid, cur)
         IN  IF Evaluated(left) THEN MinFrom(xs, mid + 1, hi, left) ELSE left

PyMin(xs) == MinFrom(xs, 2, Len(xs), xs[1])

\* max(xs): the first element, replaced by each later element that is > it
RECURSIVE MaxFrom(_, _, _, _)
MaxFrom(xs, lo, hi, cur) ==
    IF lo > hi THEN cur
    ELSE IF lo = hi THEN (IF FLt(cur, xs[lo]) THEN xs[lo] ELSE cur)
    ELSE LET mid == (lo + hi) \div 2
             left == MaxFrom(xs, lo, mid, cur)
         IN  IF Evaluated(left) THEN MaxFrom(xs, mid + 1, hi, left) ELSE left

PyMax(xs) == MaxFrom(xs, 2, Len(xs), xs[1])

\* sum(xs), from the left
RECURSIVE SumFrom(_, _, _, _)
SumFrom(xs, lo, hi, acc) ==
    IF lo > hi THEN acc
    ELSE IF lo = hi THEN FAdd(acc, xs[lo])
    ELSE LET mid == (lo + hi) \div 2
             left == SumFrom(xs, lo, mid, acc)
         IN  IF Evaluated(left) THEN SumFrom(xs, mid + 1, hi, left) ELSE left

PySum(xs) == SumFrom(xs, 1, Len(xs), Fin(0, 1))

Reverse(xs) == [i \in 1..Len(xs) |-> xs[Len(xs) + 1 - i]]

\* list.sort's count_run: the run that starts the list ends before the first
\* element that breaks its direction (desc: strictly descending)
RunEnd(xs, desc) ==
    LET breaks == {i \in 3..Len(xs) : desc # FLt(xs[i], xs[i - 1])}
    IN  IF breaks = {} THEN Len(xs)
        ELSE (CHOOSE i \in breaks : \A j \in breaks : i <= j) - 1

\* list.sort's binary search for the place of pivot in the sorted xs[l+1..r]
RECURSIVE BinarySearch(_, _, _, _)
BinarySearch(xs, pivot, l, r) ==
    IF l >= r THEN l
    ELSE LET p == l + ((r - l) \div 2)
         IN  IF FLt(pivot, xs[p + 1]) THEN BinarySearch(xs, pivot, l, p)
             ELSE BinarySearch(xs, pivot, p + 1, r)

\* one step of list.sort's binarysort: xs[1..start-1] is sorted, xs[start] is
\* moved to its place in it
InsertAt(xs, start) ==
    LET l == BinarySearch(xs, xs[start], 0, start - 1)
    IN  SubSeq(xs, 1, l) \o <<xs[start]>> \o SubSeq(xs, l + 1, start - 1)
            \o SubSeq(xs, start + 1, Len(xs))

\* list.sort's binarysort, for start = lo..hi
RECURSIVE BinarySort(_, _, _)
BinarySort(xs, lo, hi) ==
    IF lo > hi THEN xs
    ELSE IF lo = hi THEN InsertAt(xs, lo)
    ELSE LET mid == (lo + hi) \div 2
             left == BinarySort(xs, lo, mid)
         IN  IF Evaluated(left) THEN BinarySort(left, mid + 1, hi) ELSE left

\* sorted(xs) as list.sort computes it for lists under 64 elements (one run,
\* then binary insertion).  The order of a list that holds no NaN does not
\* depend on the algorithm, so longer lists without NaN sort the same way.
PySorted(xs) ==
    IF Len(xs) < 2 THEN xs
    ELSE LET desc == FLt(xs[2], xs[1])
             run == RunEnd(xs, desc)
             first == IF desc THEN Reverse(SubSeq(xs, 1, run)) \o SubSeq(xs, run + 1, Len(xs))
                      ELSE xs
         IN  BinarySort(first, run + 1, Len(xs))

\* len(set(xs)): equal floats are one element, every NaN is an element of its own
DistinctCount(xs) ==
    Cardinality({xs[i] : i \in {j \in 1..Len(xs) : ~IsNaN(xs[j])}})
        + Cardinality({j \in 1..Len(xs) : IsNaN(xs[j])})

-----------------------------------------------------------------------------
(* detect_column_type *)

SampleLimit == 100
DateMinLen == 8
\* the thresholds 0.8 and 0.5, in tenths
NumericTenths == 8
DateTenths == 5

DatePatterns == {"-", "/", ":"}

\* isinstance(val, str) and any(p in str(val) ...) and len(str(val)) >= 8
DateShaped(v) ==
    /\ v.t = "str"
    /\ \E i \in 1..Len(v.s) : v.s[i] \in DatePatterns
    /\ Len(v.s) >= DateMinLen

\* the loop run over non_null_values, not over its first 100
Unsampled(non_null_values) == non_null_values

\* non_null_values[:100]
Sample(non_null_values) ==
    SubSeq(non_null_values, 1, Min2(Len(non_null_values), SampleLimit))

\* the two returns after the sample loop; count / size >= t / 10 is
\* 10 * count >= t * size
Classify(numeric_count, date_count, sample_size) ==
    IF 10 * numeric_count >= NumericTenths * sample_size THEN "numeric"
    ELSE IF 10 * date_count >= DateTenths * sample_size THEN "date"
    ELSE "categorical"

detect_column_type(vals) ==
    LET non_null_values == SelectSeq(vals, NonNull)
        sample == Sample(non_null_values)
        numeric_count == Cardinality({i \in 1..Len(sample) : PyFloat(sample[i]) # Fail})
        date_count == Cardinality({i \in 1..Len(sample) : DateShaped(sample[i])})
        sample_size == Min2(Len(non_null_values), SampleLimit)
    IN  IF non_null_values = <<>> THEN "empty"
        ELSE Classify(numeric_count, date_count, sample_size)

-----------------------------------------------------------------------------
(* calculate_numeric_stats *)

\* the loop that keeps float(v) of every value that is not None, not '' and
\* that float() accepts
NumericValues(vals) ==
    LET kept == SelectSeq(vals, Coercible)
    IN  [i \in 1..Len(kept) |-> PyFloat(kept[i])]

\* a dict is a function from its keys; {} is the function of no key
EmptyDict == <<>>

\* int(k) for k >= 0
Floor(k) == k.n \div k.d

\* the inner function percentile(data, p); data[f] here is data[f + 1]
percentile(data, p) ==
    LET k == Fin((Len(data) - 1) * p, 100)
        f == Floor(k)
        c == IF f < Len(data) - 1 THEN f + 1 ELSE f
    IN  IF c < Len(data)
        THEN FAdd(data[f + 1], FMul(FSub(k, Fin(f, 1)), FSub(data[c + 1], data[f + 1])))
        ELSE data[f + 1]

\* statistics.median: the middle of the sorted data, or the mean of the two middles
Median(sorted_vals) ==
    LET n == Len(sorted_vals)
    IN  IF n % 2 = 1 THEN sorted_vals[(n \div 2) + 1]
        ELSE FDivInt(FAdd(sorted_vals[n \div 2], sorted_vals[(n \div 2) + 1]), 2)

\* statistics.mean
Mean(xs) == FDivInt(PySum(xs), Len(xs))

AllFinite(xs) == \A i \in 1..Len(xs) : IsFinite(xs[i])

Lcm(a, b) == (a * b) \div Gcd(a, b)

\* statistics.variance for n > 1: the exact sample variance.  With every x
\* written a/D it is (n * sum(a^2) - sum(a)^2) / (D^2 * n * (n - 1)); a value
\* that is not finite makes it NaN.
RECURSIVE DenFrom(_, _, _, _)
DenFrom(xs, lo, hi, acc) ==
    IF lo > hi THEN acc
    ELSE IF lo = hi THEN Lcm(acc, xs[lo].d)
    ELSE LET mid == (lo + hi) \div 2
             left == DenFrom(xs, lo, mid, acc)
         IN  IF Evaluated(left) THEN DenFrom(xs, mid + 1, hi, left) ELSE left

Variance(xs) ==
    IF ~AllFinite(xs) THEN NaN
    ELSE LET n == Len(xs)
             D == DenFrom(xs, 1, n, 1)
             a == [i \in 1..n |-> Fin(xs[i].n * (D \div xs[i].d), 1)]
             sq == [i \in 1..n |-> Fin(a[i].n * a[i].n, 1)]
             s1 == PySum(a).n
             s2 == PySum(sq).n
         IN  Fin(n * s2 - s1 * s1, D * D * n * (n - 1))

\* the square root, kept symbolic for a finite argument
Sqrt(a) == IF IsFinite(a) /\ a.n # 0 THEN [k |-> "sqrt", n |-> a.n, d |-> a.d] ELSE a

Raised == [error |-> "AttributeError"]

IsRaised(r) == "error" \in DOMAIN r

\* a dict is a function from its keys; d.update(more)
Update(d, more) == more @@ d

DeviationFields(variance) == [std_dev |-> Sqrt(variance), variance |-> variance]

\* the dict literal `stats`, then the branch on n > 1.  statistics.stdev of
\* data that is not all finite raises AttributeError from Python 3.11 on and
\* returns NaN before: pyStdevRaises says which Python runs.
StatsOf(numeric_values, sorted_vals) ==
    LET n == Len(sorted_vals)
        stats == [sum |-> PySum(numeric_values),
                  mean |-> Mean(numeric_values),
                  median |-> Median(sorted_vals),
                  min_val |-> PyMin(numeric_values),
                  max_val |-> PyMax(numeric_values),
                  percentile_25 |-> percentile(sorted_vals, 25),
                  percentile_50 |-> percentile(sorted_vals, 50),
                  percentile_75 |-> percentile(sorted_vals, 75),
                  percentile_90 |-> percentile(sorted_vals, 90)]
    IN  IF n > 1 /\ ~AllFinite(numeric_values) /\ pyStdevRaises THEN Raised
        ELSE Update(stats,
                    IF n > 1 THEN DeviationFields(Variance(numeric_values))
                    ELSE [std_dev |-> Fin(0, 1), variance |-> Fin(0, 1)])

\* from `if not numeric_values` on
NumericStats(numeric_values) ==
    IF numeric_values = <<>> THEN EmptyDict
    ELSE StatsOf(numeric_values, PySorted(numeric_values))

calculate_numeric_stats(vals) == NumericStats(NumericValues(vals))

-----------------------------------------------------------------------------
(* calculate_categorical_stats *)

TopValueCounts == 20
TopDistribution == 10
MaxBins == 10

\* the comprehension with its filter left out: [str(v) for v in values]
AllStrs(vals) == [i \in 1..Len(vals) |-> PyStr(vals[i])]

\* [str(v) for v in values if v is not None and v != '']
NonNullStrs(vals) ==
    LET kept == SelectSeq(vals, NonNull)
    IN  [i \in 1..Len(kept) |-> PyStr(kept[i])]

\* the tally loop: a dict keeps its keys in the order of their first
\* insertion, so it is the sequence of its (key, count) items in that order
Tally(strs) ==
    LET keys == {strs[i] : i \in 1..Len(strs)}
        firstAt == [k \in keys |->
                      CHOOSE i \in 1..Len(strs) :
                          strs[i] = k /\ \A j \in 1..(i - 1) : strs[j] # k]
        cnt == [k \in keys |-> Cardinality({i \in 1..Len(strs) : strs[i] = k})]
        place == [k \in keys |-> Cardinality({k2 \in keys : firstAt[k2] < firstAt[k]}) + 1]
    IN  [r \in 1..Cardinality(keys) |->
            LET k == CHOOSE k2 \in keys : place[k2] = r
            IN  [key |-> k, count |-> cnt[k]]]

\* sorted(items, key=count, reverse=True): stable, so equal counts keep the
\* order of the items
SortedByCountDesc(items) ==
    LET n == Len(items)
        place == [i \in 1..n |->
                    Cardinality({j \in 1..n : items[j].count > items[i].count})
                    + Cardinality({j \in 1..(i - 1) : items[j].count = items[i].count}) + 1]
    IN  [r \in 1..n |-> items[CHOOSE i \in 1..n : place[i] = r]]

\* the items with the slice left out
Untruncated(items, limit) == items

\* items[:limit]
Slice(items, limit) == SubSeq(items, 1, Min2(Len(items), limit))

\* max(items, key=count)[0]: the first item of the highest count
Mode(items) ==
    LET i == CHOOSE i \in 1..Len(items) :
                 /\ \A j \in 1..Len(items) : items[j].count <= items[i].count
                 /\ \A j \in 1..(i - 1) : items[j].count < items[i].count
    IN  items[i].key

calculate_categorical_stats(vals) ==
    LET non_null_values == NonNullStrs(vals)
        value_counts == Tally(non_null_values)
        sorted_counts == Slice(SortedByCountDesc(value_counts), TopValueCounts)
    IN  IF non_null_values = <<>> THEN EmptyDict
        ELSE [value_counts |-> sorted_counts, mode |-> Mode(value_counts)]

-----------------------------------------------------------------------------
(* get_distribution_data *)

\* the bucket returned when min_val == max_val: a label and a count
SingleBucket(min_val, numeric_values) ==
    [range |-> [fmt |-> "str", lo |-> min_val, hi |-> min_val],
     count |-> Len(numeric_values)]

\* the test of the generator that counts a bin's values
InBin(v, i, num_bins, bin_start, bin_end, max_val) ==
    \/ FLe(bin_start, v) /\ FLt(v, bin_end)
    \/ i = num_bins - 1 /\ FEq(v, max_val)

\* the bin of index i (from 0); range is the label f'{bin_start:.2f}-{bin_end:.2f}',
\* kept as the pair it formats
Bin(i, numeric_values, min_val, max_val, num_bins, bin_width) ==
    LET bin_start == FAdd(min_val, FMul(Fin(i, 1), bin_width))
        bin_end == FAdd(min_val, FMul(Fin(i + 1, 1), bin_width))
    IN  [range |-> [fmt |-> ".2f", lo |-> bin_start, hi |-> bin_end],
         count |-> Cardinality({j \in 1..Len(numeric_values) :
                      InBin(numeric_values[j], i, num_bins, bin_start, bin_end, max_val)}),
         start |-> bin_start,
         end |-> bin_end]

\* the loop over range(num_bins)
Bins(numeric_values, min_val, max_val, num_bins) ==
    [b \in 1..num_bins |->
        Bin(b - 1, numeric_values, min_val, max_val, num_bins,
            FDivInt(FSub(max_val, min_val), num_bins))]

\* from `if min_val == max_val` on
Histogram(numeric_values, min_val, max_val) ==
    IF FEq(min_val, max_val) THEN <<SingleBucket(min_val, numeric_values)>>
    ELSE Bins(numeric_values, min_val, max_val,
              Min2(MaxBins, DistinctCount(numeric_values)))

\* from `if not numeric_values` on
HistogramOf(numeric_values) ==
    IF numeric_values = <<>> THEN <<>>
    ELSE Histogram(numeric_values, PyMin(numeric_values), PyMax(numeric_values))

NumericDistribution(vals) == HistogramOf(NumericValues(vals))

CategoricalDistribution(vals) ==
    LET sorted_items == Slice(SortedByCountDesc(Tally(NonNullStrs(vals))), TopDistribution)
    IN  [i \in 1..Len(sorted_items) |->
            [name |-> sorted_items[i].key, value |-> sorted_items[i].count]]

get_distribution_data(vals, col_type) ==
    IF col_type = "numeric" THEN NumericDistribution(vals)
    ELSE CategoricalDistribution(vals)

-----------------------------------------------------------------------------
(* analyze_columns: the body of the loop over the requested columns *)

TrendLimit == 500

\* the trend built by enumerating the coerced values, which renumbers them
TrendRenumbered(vals) ==
    LET kept == SelectSeq(vals, Coercible)
    IN  SubSeq([j \in 1..Len(kept) |-> [index |-> j - 1, value |-> PyFloat(kept[j])]],
               1, IF Len(kept) < 500 THEN Len(kept) ELSE 500)

\* the enumerate loop and numeric_values[:500]; enumerate counts from 0
TrendData(vals) ==
    LET at == SelectSeq([i \in 1..Len(vals) |-> i], LAMBDA i : Coercible(vals[i]))
        numeric_values == [j \in 1..Len(at) |->
                              [index |-> at[j] - 1, value |-> PyFloat(vals[at[j]])]]
    IN  Slice(numeric_values, TrendLimit)

\* set(str(v) for v in non_null)
UniqueValues(non_null) == {PyStr(non_null[i]) : i \in 1..Len(non_null)}

\* the updates of stats by the typed statistics, the distribution and the
\* trend; Raised when calculate_numeric_stats raised
WithTyped(stats, typed, vals, col_type) ==
    IF IsRaised(typed) THEN Raised
    ELSE Update(Update(Update(stats, typed),
                       [distribution |-> get_distribution_data(vals, col_type)]),
                IF col_type = "numeric" THEN [trend_data |-> TrendData(vals)]
                ELSE EmptyDict)

\* the stats of one column
ColumnAnalysis(col, vals, col_type) ==
    LET non_null == SelectSeq(vals, NonNull)
        unique_values == UniqueValues(non_null)
        stats == [column |-> col,
                  data_type |-> col_type,
                  count |-> Len(vals),
                  non_null_count |-> Len(non_null),
                  unique_count |-> Cardinality(unique_values)]
    IN  WithTyped(stats,
                  IF col_type = "numeric" THEN calculate_numeric_stats(vals)
                  ELSE calculate_categorical_stats(vals),
                  vals, col_type)

-----------------------------------------------------------------------------
(* Column vectors the helper functions are applied to *)

MaxLen == 3
Slack == 1

Chars(str) ==
    CASE str = "a" -> <<"a">>
      [] str = "5" -> <<"5">>
      [] str = "nan" -> <<"n", "a", "n">>
      [] str = "inf" -> <<"i", "n", "f">>
      [] str = "2024-01-01" -> <<"2", "0", "2", "4", "-", "0", "1", "-", "0", "1">>
      [] str = "-0000005" -> <<"-", "0", "0", "0", "0", "0", "0", "5">>

Text(str) == StrCell(Chars(str))

\* null, '', a word, a date, a number that is also date-shaped, the number 5
\* as an integer and as a string, and the strings float() reads as NaN and Inf
Cells == {None, EmptyStr, Text("a"), Text("2024-01-01"), Text("-0000005"),
          IntCell(5), Text("5"), Text("nan"), Text("inf")}

ShortVectors == UNION {[1..n -> Cells] : n \in 0..MaxLen}

Rep(c, n) == [i \in 1..n |-> c]

Ints(lo, hi) == [i \in 1..(hi - lo + 1) |-> IntCell(lo + i - 1)]

Near(c) == (c - Slack)..(c + Slack)

\* vectors around the sample of 100 and its thresholds: a run of numbers, a
\* run of dates or words, then a tail past the sample
SampleVectors ==
    {Rep(IntCell(5), n) \o Rep(x, (SampleLimit - (NumericTenths * SampleLimit) \div 10) + e) \o Rep(y, t) :
        n \in Near((NumericTenths * SampleLimit) \div 10),
        x \in {Text("2024-01-01"), Text("a")},
        e \in 0..Slack,
        y \in {IntCell(5), Text("2024-01-01"), Text("a")},
        t \in {0, SampleLimit}}
    \cup
    {Rep(Text("2024-01-01"), n) \o Rep(Text("a"), SampleLimit - (DateTenths * SampleLimit) \div 10) \o Rep(Text("2024-01-01"), t) :
        n \in Near((DateTenths * SampleLimit) \div 10),
        t \in {0, SampleLimit}}

\* vectors around the limits on distinct values: 10 bins, 10 and 20 top values
DistinctVectors ==
    {Rep(x, r) \o Ints(1, n) \o Rep(IntCell(1), r) :
        n \in Near(MaxBins) \cup Near(TopValueCounts),
        x \in {None, Text("a")},
        r \in 0..Slack}

\* vectors around the limit of 500 trend points
TrendVectors ==
    {Rep(x, r) \o Rep(IntCell(5), n) \o <<x, IntCell(1)>> :
        n \in Near(TrendLimit),
        x \in {None, Text("a")},
        r \in 0..Slack}

Vectors == ShortVectors \cup SampleVectors \cup DistinctVectors \cup TrendVectors

ColumnTypes == {"numeric", "date", "categorical", "empty"}

\* out holds the last application of a helper to values; each behaviour of
\* FnSpec applies one helper to one vector
NoCall == [fn |-> "none"]

FnInit ==
    /\ values \in Vectors
    /\ out = NoCall
    /\ pyStdevRaises \in BOOLEAN
    /\ db = <<>>
    /\ issued = 0
    /\ request = NoCall
    /\ response = NoCall

CallDetect ==
    /\ out = NoCall
    /\ out' = [fn |-> "detect_column_type", r |-> detect_column_type(values)]
    /\ UNCHANGED <<sessionVars, values, pyStdevRaises>>

CallNumericStats ==
    /\ out = NoCall
    /\ out' = [fn |-> "calculate_numeric_stats", r |-> calculate_numeric_stats(values)]
    /\ UNCHANGED <<sessionVars, values, pyStdevRaises>>

CallCategoricalStats ==
    /\ out = NoCall
    /\ out' = [fn |-> "calculate_categorical_stats", r |-> calculate_categorical_stats(values)]
    /\ UNCHANGED <<sessionVars, values, pyStdevRaises>>

CallDistribution(col_type) ==
    /\ out = NoCall
    /\ out' = [fn |-> "get_distribution_data", col_type |-> col_type,
               r |-> get_distribution_data(values, col_type)]
    /\ UNCHANGED <<sessionVars, values, pyStdevRaises>>

CallColumnAnalysis(col_type) ==
    /\ out = NoCall
    /\ out' = [fn |-> "analyze_columns", col_type |-> col_type,
               r |-> ColumnAnalysis("a", values, col_type)]
    /\ UNCHANGED <<sessionVars, values, pyStdevRaises>>

FnNext ==
    \/ CallDetect
    \/ CallNumericStats
    \/ CallCategoricalStats
    \/ \E col_type \in ColumnTypes : CallDistribution(col_type)
    \/ \E col_type \in ColumnTypes : CallColumnAnalysis(col_type)

FnSpec == FnInit /\ [][FnNext]_vars

-----------------------------------------------------------------------------
(* The session routes *)

MaxSessions == 2
PreviewLimit == 100

ColumnOrder == <<"a", "b">>

UnknownColumn == "zz"

\* a row that is not a JSON object
NotADict == [notdict |-> TRUE]

IsDict(row) == "notdict" \notin DOMAIN row

\* a row that is a JSON array
ListRow(cells) == [cells |-> cells]

\* dict.get(key, default)
Get(dict, key, default) == IF key \in DOMAIN dict THEN dict[key] ELSE default

\* list(first_row.keys()); the keys of a row are taken in the order a, b
Keys(row) == SelectSeq(ColumnOrder, LAMBDA c : c \in DOMAIN row)

Range(seq) == {seq[i] : i \in 1..Len(seq)}

\* [row.get(col) for row in data]
ColumnValues(data, col) == [i \in 1..Len(data) |-> Get(data[i], col, None)]

\* dict(zip(headers, row))
Zip(headers, row) ==
    [c \in {headers[i] : i \in 1..Min2(Len(headers), Len(row))} |->
        row[CHOOSE i \in 1..Min2(Len(headers), Len(row)) :
                headers[i] = c /\ \A j \in (i + 1)..Min2(Len(headers), Len(row)) : headers[j] # c]]

WrapperKeys == <<"data", "rows", "items", "records", "results", "values">>

\* The JSON a webhook answers with.  kind "list": an array of rows;
\* "headers_rows": {headers: [...], rows: [...]} with rows that are lists
\* (rows_are = "lists") or objects; "wrapped": an object holding an array under
\* one of the wrapper keys; "object": any other object, taken as one row;
\* "scalar": a string or a number; "invalid_json" and "http_error": no JSON.
\* The last row of NumTable has no b: row.get gives None for it.
NumTable == <<[a |-> Text("5"), b |-> Text("2024-01-01")],
              [a |-> IntCell(5), b |-> Text("2024-01-01")],
              [a |-> Text("-0000005")]>>

EmptyTable == <<[a |-> None, b |-> Text("a")], [a |-> EmptyStr, b |-> IntCell(5)]>>

NanTable == <<[a |-> Text("nan")], [a |-> IntCell(5)]>>

Payloads ==
    {[kind |-> "list", rows |-> NumTable],
     [kind |-> "list", rows |-> <<>>],
     [kind |-> "list", rows |-> <<NotADict>>],
     [kind |-> "list", rows |-> <<[a |-> IntCell(5)], NotADict>>],
     [kind |-> "headers_rows", rows_are |-> "lists", headers |-> <<"a", "b">>,
      rows |-> <<ListRow(<<None, Text("a")>>), ListRow(<<EmptyStr, IntCell(5)>>)>>],
     [kind |-> "headers_rows", rows_are |-> "dicts", headers |-> <<"a", "b">>,
      rows |-> EmptyTable],
     [kind |-> "wrapped", key |-> "records", rows |-> NanTable],
     [kind |-> "object", row |-> [a |-> EmptyStr]],
     [kind |-> "scalar"],
     [kind |-> "invalid_json"],
     [kind |-> "http_error"]}

HttpError(status, detail) == [status |-> status, detail |-> detail]

Ok(body) == [status |-> 200, body |-> body]

\* the unwrapping of the parsed JSON into data (a scalar stays what it is)
Unwrap(payload) ==
    CASE payload.kind = "headers_rows" ->
            IF payload.rows # <<>> /\ payload.rows_are = "lists"
            THEN [i \in 1..Len(payload.rows) |-> Zip(payload.headers, payload.rows[i].cells)]
            ELSE payload.rows
      [] payload.kind = "wrapped" /\ payload.key \in Range(WrapperKeys) -> payload.rows
      [] payload.kind = "object" -> <<payload.row>>
      [] payload.kind = "list" -> payload.rows

\* the loop over columns that fills column_types
ColumnTypesOf(data, columns) ==
    [col \in Range(columns) |-> detect_column_type(ColumnValues(data, col))]

SessionDoc(session_id, data, columns, column_types) ==
    [id |-> session_id,
     data |-> data,
     columns |-> columns,
     column_types |-> column_types,
     row_count |-> Len(data)]

\* POST /fetch-data.  The url and created_at of the document are left out.
\* The body of an answer is the value the handler returns.
fetch_webhook_data(payload) ==
    /\ issued < MaxSessions
    /\ request' = [op |-> "fetch_webhook_data", webhook |-> payload]
    /\ IF payload.kind = "http_error"
       THEN /\ response' = HttpError(502, "Failed to fetch data")
            /\ UNCHANGED <<db, issued>>
       ELSE IF payload.kind = "invalid_json"
       THEN /\ response' = HttpError(400, "Invalid JSON response from webhook")
            /\ UNCHANGED <<db, issued>>
       ELSE IF payload.kind = "scalar"
       THEN /\ response' = HttpError(400, "Data must be an array of objects")
            /\ UNCHANGED <<db, issued>>
       ELSE LET data == Unwrap(payload)
                first_row == data[1]
                columns == Keys(first_row)
                column_types == ColumnTypesOf(data, columns)
                session_id == issued + 1
            IN  IF Len(data) = 0
                THEN /\ response' = HttpError(400, "No data found in response")
                     /\ UNCHANGED <<db, issued>>
                ELSE IF ~IsDict(first_row)
                THEN /\ response' = HttpError(400, "Each row must be an object")
                     /\ UNCHANGED <<db, issued>>
                ELSE IF \E i \in 1..Len(data) : ~IsDict(data[i])
                THEN \* row.get raises AttributeError: the last except clause
                     /\ response' = HttpError(500, "AttributeError")
                     /\ UNCHANGED <<db, issued>>
                ELSE /\ issued' = session_id
                     /\ db' = [id \in DOMAIN db \cup {session_id} |->
                                  IF id = session_id
                                  THEN SessionDoc(session_id, data, columns, column_types)
                                  ELSE db[id]]
                     /\ response' = Ok([session_id |-> session_id,
                                        columns |-> columns,
                                        column_types |-> column_types,
                                        row_count |-> Len(data),
                                        preview |-> Slice(data, PreviewLimit)])
    /\ UNCHANGED <<fnVars, pyStdevRaises>>

\* GET /session/{session_id}
get_session(session_id) ==
    /\ request' = [op |-> "get_session", session_id |-> session_id]
    /\ response' = IF session_id \in DOMAIN db THEN Ok(db[session_id])
                   ELSE HttpError(404, "Session not found")
    /\ UNCHANGED <<db, issued, fnVars, pyStdevRaises>>

\* the column type analyze_columns works with
ColTypeOf(session, col) == Get(session.column_types, col, "categorical")

\* the loop over request.columns: a sequence of stats, with Raised for a
\* column whose statistics raise
Results(session, columns) ==
    LET known == SelectSeq(columns, LAMBDA col : col \in Range(session.columns))
    IN  [i \in 1..Len(known) |->
            ColumnAnalysis(known[i],
                           ColumnValues(session.data, known[i]),
                           ColTypeOf(session, known[i]))]

\* a $set document that also rewrites column_types, from the analysed columns
AnalyticsUpdateRetyping(results, columns) ==
    [analytics |-> results,
     analyzed_columns |-> columns,
     column_types |-> [c \in {results[i].column : i \in 1..Len(results)} |->
                          (CHOOSE r \in Range(results) : r.column = c).data_type]]

\* the $set document of update_one
AnalyticsUpdate(results, columns) ==
    [analytics |-> results, analyzed_columns |-> columns]

\* update_one with $set
SetFields(doc, fields) == fields @@ doc

\* the end of analyze_columns, once results is computed
Answer(session_id, columns, results) ==
    IF \E i \in 1..Len(results) : IsRaised(results[i])
    THEN \* nothing catches the exception: the server answers 500
         /\ response' = HttpError(500, "Internal Server Error")
         /\ UNCHANGED db
    ELSE /\ db' = [db EXCEPT ![session_id] =
                      SetFields(@, AnalyticsUpdate(results, columns))]
         /\ response' = Ok([analytics |-> results])

\* POST /analyze
analyze_columns(session_id, columns) ==
    /\ request' = [op |-> "analyze_columns", session_id |-> session_id, columns |-> columns]
    /\ IF session_id \notin DOMAIN db
       THEN /\ response' = HttpError(404, "Session not found")
            /\ UNCHANGED db
       ELSE Answer(session_id, columns, Results(db[session_id], columns))
    /\ UNCHANGED <<issued, fnVars, pyStdevRaises>>

\* GET /session/{session_id}/analytics
get_session_analytics(session_id) ==
    /\ request' = [op |-> "get_session_analytics", session_id |-> session_id]
    /\ response' = IF session_id \in DOMAIN db
                   THEN Ok([analytics |-> Get(db[session_id], "analytics", <<>>),
                            analyzed_columns |-> Get(db[session_id], "analyzed_columns", <<>>)])
                   ELSE HttpError(404, "Session not found")
    /\ UNCHANGED <<db, issued, fnVars, pyStdevRaises>>

\* DELETE /session/{session_id}
delete_session(session_id) ==
    /\ request' = [op |-> "delete_session", session_id |-> session_id]
    /\ IF session_id \in DOMAIN db
       THEN /\ db' = [id \in DOMAIN db \ {session_id} |-> db[id]]
            /\ response' = Ok([message |-> "Session deleted successfully"])
       ELSE /\ response' = HttpError(404, "Session not found")
            /\ UNCHANGED db
    /\ UNCHANGED <<issued, fnVars, pyStdevRaises>>

SessionIds == 1..MaxSessions

\* request.columns: every column known, none known, one of each
Requests == {<<"a", "b">>, <<UnknownColumn>>, <<"b", UnknownColumn>>}

Init ==
    /\ db = <<>>
    /\ issued = 0
    /\ request = NoCall
    /\ response = NoCall
    /\ values = <<>>
    /\ out = NoCall
    /\ pyStdevRaises \in BOOLEAN

Next ==
    \/ \E payload \in Payloads : fetch_webhook_data(payload)
    \/ \E session_id \in SessionIds : get_session(session_id)
    \/ \E session_id \in SessionIds, columns \in Requests : analyze_columns(session_id, columns)
    \/ \E session_id \in SessionIds : get_session_analytics(session_id)
    \/ \E session_id \in SessionIds : delete_session(session_id)

Spec == Init /\ [][Next]_vars

-----------------------------------------------------------------------------
(* Properties of the helper functions (FnSpec) *)

\* the positions of values that hold neither null nor the empty string
NonEmptyAt ==
    {i \in 1..Len(values) :
        values[i].t # "none" /\ ~(values[i].t = "str" /\ Len(values[i].s) = 0)}

\* the positions of values that float() accepts, among those
CoercibleAt == {i \in NonEmptyAt : PyFloat(values[i]) # Fail}

RECURSIVE CountSum(_)
CountSum(items) == IF Len(items) = 0 THEN 0 ELSE Head(items).count + CountSum(Tail(items))

Analysed == out.fn = "analyze_columns" /\ ~IsRaised(out.r)

\* C2: the counts of the buckets get_distribution_data(values, 'numeric')
\* returns sum to the number of coercible values of the vector, whatever the
\* vector (all values equal, one value and no coercible value included).
C2_BucketCountsSumToCoercible ==
    (out.fn = "get_distribution_data" /\ out.col_type = "numeric")
        => CountSum(out.r) = Cardinality(CoercibleAt)

\* C3: every per-column result of analyze_columns has
\* unique_count <= non_null_count <= count, where count is the length of the
\* column vector, non_null_count the number of values that are neither null
\* nor the empty string and unique_count the number of distinct strings of
\* those values.
C3_CountsOrdered ==
    Analysed =>
        /\ out.r.unique_count <= out.r.non_null_count
        /\ out.r.non_null_count <= out.r.count
        /\ out.r.count = Len(values)
        /\ out.r.non_null_count = Cardinality(NonEmptyAt)
        /\ out.r.unique_count = Cardinality({PyStr(values[i]) : i \in NonEmptyAt})

\* a column with a null, and a value that occurs twice
C3_CountsStrictlyOrdered ==
    /\ Analysed
    /\ out.r.unique_count < out.r.non_null_count
    /\ out.r.non_null_count < out.r.count

\* C4: for a vector with a coercible value, calculate_numeric_stats returns
\* percentile_25 <= percentile_50 <= percentile_75 <= percentile_90, and
\* percentile_50 equal to the median it returns.
C4_PercentilesOrderedAndMedian ==
    (out.fn = "calculate_numeric_stats" /\ CoercibleAt # {} /\ ~IsRaised(out.r)) =>
        /\ FLe(out.r.percentile_25, out.r.percentile_50)
        /\ FLe(out.r.percentile_50, out.r.percentile_75)
        /\ FLe(out.r.percentile_75, out.r.percentile_90)
        /\ FEq(out.r.percentile_50, out.r.median)

\* C5: for a column analysed as non-numeric, value_counts has at most 20
\* entries, of distinct keys; its counts sum to at most non_null_count, and to
\* non_null_count exactly when unique_count <= 20.  It is absent only when the
\* column has no non-null value.
C5_ValueCountsBounded ==
    (Analysed /\ out.col_type # "numeric") =>
        IF "value_counts" \in DOMAIN out.r
        THEN LET vc == out.r.value_counts
             IN  /\ Len(vc) <= 20
                 /\ \A i, j \in 1..Len(vc) : vc[i].key = vc[j].key => i = j
                 /\ CountSum(vc) <= out.r.non_null_count
                 /\ (CountSum(vc) = out.r.non_null_count) <=> (out.r.unique_count <= 20)
        ELSE out.r.non_null_count = 0

\* more than 20 distinct values: the map is cut and loses occurrences
C5_ValueCountsTruncated ==
    /\ Analysed
    /\ out.col_type # "numeric"
    /\ out.r.unique_count > 20
    /\ Len(out.r.value_counts) = 20
    /\ CountSum(out.r.value_counts) < out.r.non_null_count

\* the first `limit` positions of a set of positions
FirstOf(at, limit) == {i \in at : Cardinality({j \in at : j <= i}) <= limit}

\* the type the decision order gives to the first `limit` non-empty values
TypeOfSample(limit) ==
    LET sample == FirstOf(NonEmptyAt, limit)
        sample_size == Cardinality(sample)
        numeric_count == Cardinality({i \in sample : PyFloat(values[i]) # Fail})
        date_count == Cardinality({i \in sample : DateShaped(values[i])})
    IN  IF NonEmptyAt = {} THEN "empty"
        ELSE IF 10 * numeric_count >= 8 * sample_size THEN "numeric"
        ELSE IF 10 * date_count >= 5 * sample_size THEN "date"
        ELSE "categorical"

\* values cut after its 100th non-empty value (whole when it has no more)
ThroughSample ==
    LET sample == FirstOf(NonEmptyAt, 100)
    IN  IF Cardinality(NonEmptyAt) <= 100 THEN values
        ELSE SubSeq(values, 1, CHOOSE i \in sample : \A j \in sample : j <= i)

\* C6: detect_column_type returns 'empty' when no value is left once nulls
\* and empty strings are removed; otherwise, over the first min(100, left)
\* values, 'numeric' when numeric_count / sample_size >= 0.8, else 'date' when
\* date_count / sample_size >= 0.5, else 'categorical'.  The values after the
\* first 100 non-empty ones do not change the result.
C6_DecisionOrderOverSample ==
    out.fn = "detect_column_type" =>
        /\ out.r = TypeOfSample(100)
        /\ out.r = detect_column_type(ThroughSample)

\* more than 100 non-empty values, and a tail that would change the type
C6_TailWouldChangeType ==
    /\ out.fn = "detect_column_type"
    /\ Cardinality(NonEmptyAt) > 100
    /\ TypeOfSample(Len(values)) # out.r

\* C9: when all the coercible values of a numeric column are identical,
\* get_distribution_data returns one bucket, whose count is the number of
\* coercible values and whose lower and upper bounds are present and equal to
\* that value.
C9_SingleBucketHasBounds ==
    (/\ out.fn = "get_distribution_data"
     /\ out.col_type = "numeric"
     /\ CoercibleAt # {}
     /\ \A i, j \in CoercibleAt : FEq(PyFloat(values[i]), PyFloat(values[j])))
        => /\ Len(out.r) = 1
           /\ out.r[1].count = Cardinality(CoercibleAt)
           /\ "start" \in DOMAIN out.r[1]
           /\ "end" \in DOMAIN out.r[1]
           /\ \A i \in CoercibleAt :
                 /\ FEq(out.r[1].start, PyFloat(values[i]))
                 /\ FEq(out.r[1].end, PyFloat(values[i]))

\* C10: for a numeric column, trend_data holds the (index, value) pairs of
\* the first 500 coercible values in row order: min(500, number of coercible
\* values) entries, of strictly increasing indices, each index the position
\* of its value in the whole vector (from 0), and no coercible value before
\* the last index left out.
C10_TrendKeepsOriginalIndices ==
    (Analysed /\ out.col_type = "numeric") =>
        LET trend == out.r.trend_data
            n == Len(trend)
        IN  /\ n = (IF Cardinality(CoercibleAt) < 500 THEN Cardinality(CoercibleAt) ELSE 500)
            /\ \A j \in 1..n :
                  /\ (trend[j].index + 1) \in CoercibleAt
                  /\ trend[j].value = PyFloat(values[trend[j].index + 1])
            /\ \A j \in 1..(n - 1) : trend[j].index < trend[j + 1].index
            /\ \A i \in CoercibleAt :
                  (n > 0 /\ i - 1 < trend[n].index)
                      => \E j \in 1..n : trend[j].index = i - 1

\* more than 500 coercible values behind a value that is not coercible
C10_TrendCutAfterSkippedValue ==
    /\ Analysed
    /\ out.col_type = "numeric"
    /\ Cardinality(CoercibleAt) > 500
    /\ Len(out.r.trend_data) = 500
    /\ out.r.trend_data[1].index > 0

-----------------------------------------------------------------------------
(* Properties of the session routes (Spec) *)

\* the last request was an analysis of a session that exists
AnalysisAnswered ==
    /\ "op" \in DOMAIN request
    /\ request.op = "analyze_columns"
    /\ request.session_id \in DOMAIN db

\* C1: an analysis that names a column the session does not know is answered
\* with an explicit signal for that name: an error, or a result that names it;
\* never with a result that leaves the name out.
C1_UnknownColumnSignalled ==
    AnalysisAnswered =>
        \A i \in 1..Len(request.columns) :
            request.columns[i] \notin Range(db[request.session_id].columns) =>
                \/ response.status # 200
                \/ \E j \in 1..Len(response.body.analytics) :
                      response.body.analytics[j].column = request.columns[i]

\* every recorded type is the one detect_column_type gives the column's data
TypesRecordedAtIngestion ==
    \A sid \in DOMAIN db :
        db[sid].column_types =
            [c \in Range(db[sid].columns) |->
                detect_column_type(ColumnValues(db[sid].data, c))]

\* every analysis, answered or stored, reports the recorded type of its column
AnalysesUseRecordedTypes ==
    /\ \A sid \in DOMAIN db :
          "analytics" \in DOMAIN db[sid] =>
              \A j \in 1..Len(db[sid].analytics) :
                  db[sid].analytics[j].data_type
                      = db[sid].column_types[db[sid].analytics[j].column]
    /\ (AnalysisAnswered /\ response.status = 200) =>
          \A j \in 1..Len(response.body.analytics) :
              response.body.analytics[j].data_type
                  = db[request.session_id].column_types[response.body.analytics[j].column]

\* no step changes the types or the data of a session it keeps
TypesKept ==
    \A sid \in DOMAIN db \cap DOMAIN db' :
        /\ db'[sid].column_types = db[sid].column_types
        /\ db'[sid].data = db[sid].data

\* C7: the type of a column is assigned at ingestion, from the column's data,
\* and stored with the session; every analysis of the session reports that
\* type, and no call changes it.
C7_TypeAssignedOnce ==
    /\ [](TypesRecordedAtIngestion /\ AnalysesUseRecordedTypes)
    /\ [][TypesKept]_vars

\* an analysis is stored in one session, and an analysis of the two columns of
\* another session is answered
C7_AnalysedAgain ==
    /\ AnalysisAnswered
    /\ response.status = 200
    /\ Len(response.body.analytics) = 2
    /\ \E sid \in DOMAIN db :
          /\ sid # request.session_id
          /\ "analytics" \in DOMAIN db[sid]
          /\ Len(db[sid].analytics) > 0

AllEmpty(vals) ==
    \A i \in 1..Len(vals) :
        vals[i].t = "none" \/ (vals[i].t = "str" /\ Len(vals[i].s) = 0)

\* the columns of a session whose every value is null or the empty string
EmptyColumnsOf(session) ==
    {c \in Range(session.columns) : AllEmpty(ColumnValues(session.data, c))}

\* the statistics of an empty column, with `count` for its count
EmptyStats(r, count) ==
    /\ r.data_type = "empty"
    /\ r.count = count
    /\ r.non_null_count = 0
    /\ r.unique_count = 0
    /\ r.distribution = <<>>
    /\ DOMAIN r = {"column", "data_type", "count", "non_null_count",
                   "unique_count", "distribution"}

\* an empty column is typed 'empty', and an analysis of empty columns alone
\* is answered without an error
EmptyColumnsTypedAndAnswered ==
    /\ \A sid \in DOMAIN db :
          \A c \in EmptyColumnsOf(db[sid]) : db[sid].column_types[c] = "empty"
    /\ AnalysisAnswered =>
          ((Range(request.columns) \cap Range(db[request.session_id].columns))
               \subseteq EmptyColumnsOf(db[request.session_id])
           => response.status = 200)

\* the results of the answered analysis that are about an empty column
EmptyResults ==
    IF AnalysisAnswered /\ response.status = 200
    THEN {r \in Range(response.body.analytics) :
             r.column \in EmptyColumnsOf(db[request.session_id])}
    ELSE {}

\* C8 as stated: an entirely empty column is typed 'empty', and its analysis
\* gives count, non_null_count and unique_count at zero, an empty
\* distribution and no error.
C8_AllCountsZero ==
    /\ EmptyColumnsTypedAndAnswered
    /\ \A r \in EmptyResults : EmptyStats(r, 0)

\* C8, amended: an entirely empty column is typed 'empty', and its analysis
\* gives non_null_count and unique_count at zero, count at the number of rows
\* of the column, no typed statistics, an empty distribution and no error.
C8_EmptyColumnAnalysed ==
    /\ EmptyColumnsTypedAndAnswered
    /\ \A r \in EmptyResults : EmptyStats(r, Len(db[request.session_id].data))

\* an empty column of two rows has been analysed
C8_EmptyColumnOfRows ==
    \E r \in EmptyResults : r.count = 2 /\ r.non_null_count = 0

=============================================================================
